---- MODULE Spec2Model ----
(***************************************************************************)
(* The trip state manager of the Bali trip planner (MapProvider), its      *)
(* persistence gateway (locationService / categoryService), the local      *)
(* fallback store (localStorage) and the passcode gate (AuthProvider).     *)
(*                                                                         *)
(* Every asynchronous handler of MapProvider is split where the code       *)
(* awaits: the call (synchronous prefix, captures the `locations` and      *)
(* `categories` of the render that created the handler), the gateway's     *)
(* answer, and the continuation after the await (catch / finally).  The    *)
(* effects that depend on [locations] and [categories] run with the render *)
(* that follows each state update and are part of the step that updates.   *)
(***************************************************************************)
EXTENDS Integers, Sequences, FiniteSets, TLC

\* ---------------------------------------------------------------- bounds
MaxCalls == 2        \* manager operations invoked in one run of Spec
MaxRouteCalls == 3   \* manager operations invoked in one run of SpecRoutes
MaxInFlight == 2     \* operations and route batches awaiting at the same time
MaxMounts == 1       \* times MapProvider is mounted in one run
NumGenIds == 2       \* distinct strings generateId can return
MaxPairLen == 4
MaxRouteSteps == 120      \* longest list given to calculateAllDirectDistances in SpecPairs

\* ---------------------------------------------------------------- values
Undefined == 0 - 1   \* an absent optional field / undefined
Keep == 0 - 2        \* a key that a Partial<...> argument does not carry
PASSCODE == 1        \* 'baliboys'
Passcodes == {PASSCODE, 2}
Names == {"a", "b"}
\* coordinates are [0, lat], lat in whole degrees
Places == {[name |-> "a", lat |-> 0], [name |-> "b", lat |-> 1]}
GenIds == {100 + i : i \in 1..NumGenIds}
KmPerDegree == 111
\* routes[0] of an answer of the directions service: metres, seconds, geometry
RouteAnswers == {[distance |-> 3000, duration |-> 600, geometry |-> 1]}

Outcomes == {"ok", "soft", "throw"}
RouteOutcomes == {"ok", "throw", "notok", "noroutes"}

\* ---------------------------------------------------------------- helpers
Range(s) == {s[i] : i \in 1..Len(s)}
Ids(s) == {s[i].id : i \in 1..Len(s)}

RECURSIVE SelectSeqBy(_, _)
\* Array.prototype.filter keeping the entries whose id is not `id`
SelectSeqBy(s, id) ==
  IF s = <<>> THEN <<>>
  ELSE IF Head(s).id = id THEN SelectSeqBy(Tail(s), id)
       ELSE <<Head(s)>> \o SelectSeqBy(Tail(s), id)

\* Array.prototype.find by id (Undefined when no entry matches)
Find(s, id) ==
  IF \E i \in 1..Len(s) : s[i].id = id
  THEN s[CHOOSE i \in 1..Len(s) : s[i].id = id /\ \A j \in 1..(i-1) : s[j].id # id]
  ELSE [id |-> Undefined, name |-> "", coordinates |-> <<0, 0>>, categoryId |-> Undefined]

Abs(x) == IF x < 0 THEN 0 - x ELSE x

\* turf distance in kilometres, for points on one meridian
calculateDirectDistance(from, to) ==
  KmPerDegree * Abs(from.coordinates[2] - to.coordinates[2])

DirectInfo(from, to) ==
  [from |-> from, to |-> to, directDistance |-> calculateDirectDistance(from, to),
   drivingDistance |-> Undefined, drivingDuration |-> Undefined,
   routeGeometry |-> Undefined]

RECURSIVE PairsFrom(_, _, _)
\* the two nested loops of calculateAllDirectDistances, from indices (i, j) on
PairsFrom(locs, i, j) ==
  IF i > Len(locs) THEN <<>>
  ELSE IF j > Len(locs) THEN PairsFrom(locs, i + 1, i + 2)
       ELSE <<DirectInfo(locs[i], locs[j])>> \o PairsFrom(locs, i, j + 1)

\* calculateAllDirectDistances with the inner loop starting at j = i
calculateAllDirectDistances_FromSelf(locs) ==
  IF Len(locs) < 2 THEN <<>> ELSE PairsFrom(locs, 1, 1)

calculateAllDirectDistances(locs) ==
  IF Len(locs) < 2 THEN <<>> ELSE PairsFrom(locs, 1, 2)

\* { ...location, ...updates }: keys present in updates overwrite
Merge(loc, upd) ==
  [id |-> IF upd.id = Keep THEN loc.id ELSE upd.id,
   name |-> IF upd.name = "" THEN loc.name ELSE upd.name,
   coordinates |-> IF upd.lat = Keep THEN loc.coordinates ELSE <<0, upd.lat>>,
   categoryId |-> IF upd.categoryId = Keep THEN loc.categoryId ELSE upd.categoryId]

NoUpdate == [id |-> Keep, name |-> "", lat |-> Keep, categoryId |-> Keep]

\* localStorage values: getItem gives null for a missing key; JSON.stringify
\* drops the keys whose value is undefined, JSON.parse leaves them absent
Missing == [kind |-> "null", val |-> <<>>]
Malformed == [kind |-> "garbage", val |-> <<>>]    \* text that JSON.parse rejects
Stringify(list) == [kind |-> "json", val |-> list]
Parses(item) == item.kind = "json"
Parse(item) == item.val

VARIABLES
  isLoggedIn,          \* AuthProvider state
  baliAuth,            \* localStorage 'baliAuth': TRUE when it holds 'true'
  mounted,             \* MapProvider is mounted
  locations, categories, distances, isLoading,   \* MapProvider state
  baliTripLocations, baliTripCategories,         \* localStorage snapshots
  remoteLocs, remoteCats,                        \* rows of the owner in the remote tables
  nextLocId, nextCatId,                          \* ids the remote tables assign next
  ops,                 \* manager operations awaiting their gateway call
  batches,             \* fetchDrivingRoutes calls awaiting their routes
  budget,              \* manager operations that may still be invoked in this run
  mounts,              \* times MapProvider was mounted in this run
  last,                \* the operation whose continuation ran in the last step
  finished,            \* the batches that have completed since the mount, in order
  saved,               \* the snapshots as they were when MapProvider was last mounted
  added                \* ids of the Locations a completed addLocation appended, until
                       \* a removeLocation of the id or a clearLocations is called

vars == <<isLoggedIn, baliAuth, mounted, locations, categories, distances, isLoading,
          baliTripLocations, baliTripCategories, remoteLocs, remoteCats,
          nextLocId, nextCatId, ops, batches, budget, mounts, last, finished, saved,
          added>>

authVars == <<isLoggedIn, baliAuth>>
remoteVars == <<remoteLocs, remoteCats, nextLocId, nextCatId>>
locVars == <<locations, distances, baliTripLocations>>
catVars == <<categories, baliTripCategories>>

None == [kind |-> "none", id |-> Undefined, toId |-> Undefined, upd |-> <<>>,
         st |-> "none", lenBefore |-> 0, locs |-> <<>>, res |-> <<>>,
         arg |-> <<>>, ret |-> <<>>]

\* a manager operation in flight
Op(kind, id, upd, name, lat, cat) ==
  [uid |-> budget, kind |-> kind, id |-> id, upd |-> upd, name |-> name,
   lat |-> lat, categoryId |-> cat,
   locs |-> locations, cats |-> categories,     \* closure of the calling render
   st |-> "pending", res |-> <<>>,
   reqs |-> <<>>]

\* what `last` records when the continuation of o runs
Completed(o) ==
  [kind |-> o.kind, id |-> o.id, toId |-> Undefined, upd |-> <<o.upd>>,
   st |-> o.st, lenBefore |-> Len(locations), locs |-> o.locs, res |-> o.reqs,
   arg |-> <<[name |-> o.name, lat |-> o.lat, categoryId |-> o.categoryId]>>,
   ret |-> o.res]

\* ---------------------------------------------------------------- effects
\* SetLocations with the effect leaving distances as they were
SetLocations_NoRecompute(v) ==
  /\ locations' = v
  /\ baliTripLocations' = Stringify(v)
  /\ distances' = distances

\* setLocations(v) and the effect on [locations] of the render that follows
SetLocations(v) ==
  /\ locations' = v
  /\ baliTripLocations' = Stringify(v)
  /\ distances' = IF Len(v) >= 2 THEN calculateAllDirectDistances(v) ELSE <<>>

\* SetCategories without the effect that writes the snapshot
SetCategories_NoMirror(v) ==
  /\ categories' = v
  /\ baliTripCategories' = baliTripCategories

\* setCategories(v) and the effect on [categories] of the render that follows
SetCategories(v) ==
  /\ categories' = v
  /\ baliTripCategories' = Stringify(v)

\* MapProvider mounts: useState initial values, then the four effects in order
Mount ==
  /\ mounted' = TRUE
  /\ mounts' = mounts + 1
  /\ saved' = [locations |-> baliTripLocations, categories |-> baliTripCategories]
  /\ isLoading' = TRUE
  /\ ops' = { [Op("loadLocations", Undefined, NoUpdate, "", Keep, Undefined)
                 EXCEPT !.uid = 0, !.locs = <<>>, !.cats = <<>>],
              [Op("loadCategories", Undefined, NoUpdate, "", Keep, Undefined)
                 EXCEPT !.uid = 0, !.locs = <<>>, !.cats = <<>>] }
  /\ batches' = {}
  /\ SetLocations(<<>>)
  /\ SetCategories(<<>>)
  /\ finished' = <<>>
  /\ added' = {}

Unmount ==
  /\ mounted' = FALSE
  /\ locations' = <<>>
  /\ categories' = <<>>
  /\ distances' = <<>>
  /\ isLoading' = FALSE
  /\ ops' = {}
  /\ batches' = {}
  /\ finished' = <<>>
  /\ added' = {}
  /\ UNCHANGED <<baliTripLocations, baliTripCategories, saved, mounts>>

\* ---------------------------------------------------------------- AuthProvider
\* login taking any passcode
Accepts_Any(p) == TRUE

\* passcode === PASSCODE
Accepts(p) == p = PASSCODE

\* login(passcode), called by the login screen, which is shown while logged
\* out; `last.st` is the value it returns
login(p) ==
  /\ ~isLoggedIn
  /\ Accepts(p) => mounts < MaxMounts
  /\ IF Accepts(p)
     THEN /\ isLoggedIn' = TRUE
          /\ baliAuth' = TRUE
          /\ Mount
          /\ last' = [None EXCEPT !.kind = "login", !.id = p, !.st = "true"]
          /\ UNCHANGED <<remoteVars, budget>>
     ELSE /\ last' = [None EXCEPT !.kind = "login", !.id = p, !.st = "false"]
          /\ UNCHANGED <<authVars, mounted, locVars, catVars, isLoading, remoteVars,
                         ops, batches, budget, mounts, finished, saved, added>>

\* logout leaving the stored auth flag in place
logout_KeepsFlag ==
  /\ isLoggedIn
  /\ isLoggedIn' = FALSE
  /\ baliAuth' = baliAuth
  /\ Unmount
  /\ last' = [None EXCEPT !.kind = "logout"]
  /\ UNCHANGED <<remoteVars, budget>>

logout ==
  /\ isLoggedIn
  /\ isLoggedIn' = FALSE
  /\ baliAuth' = FALSE
  /\ Unmount
  /\ last' = [None EXCEPT !.kind = "logout"]
  /\ UNCHANGED <<remoteVars, budget>>

\* the page is loaded again: AuthProvider starts logged out, its effect reads 'baliAuth'
Reload ==
  /\ baliAuth => mounts < MaxMounts
  /\ isLoggedIn' = baliAuth
  /\ IF baliAuth THEN Mount ELSE Unmount
  /\ last' = [None EXCEPT !.kind = "reload"]
  /\ UNCHANGED <<baliAuth, remoteVars, budget>>

\* what an earlier session left behind: the rows of the owner in the remote tables
\* and the snapshots that session's last render wrote
Loc(id, name, lat, cat) ==
  [id |-> id, name |-> name, coordinates |-> <<0, lat>>, categoryId |-> cat]

PrevSessions ==
  { [locs |-> <<>>, cats |-> <<>>],
    [locs |-> <<Loc(1, "a", 0, 1), Loc(2, "b", 1, Undefined)>>,
     cats |-> <<[id |-> 1, name |-> "a"]>>] }

\* the page is opened, logged out, with the rows of `prev` in the remote tables
\* and the given values under the two snapshot keys
InitWith(prev, snapLocations, snapCategories, callsLeft) ==
  /\ isLoggedIn = FALSE
  /\ baliAuth = FALSE
  /\ mounted = FALSE
  /\ locations = <<>>
  /\ categories = <<>>
  /\ distances = <<>>
  /\ isLoading = FALSE
  /\ remoteLocs = prev.locs
  /\ remoteCats = prev.cats
  /\ baliTripLocations = snapLocations
  /\ baliTripCategories = snapCategories
  /\ nextLocId = Len(remoteLocs) + 1
  /\ nextCatId = Len(remoteCats) + 1
  /\ ops = {}
  /\ batches = {}
  /\ budget = callsLeft
  /\ mounts = 0
  /\ last = None
  /\ finished = <<>>
  /\ saved = [locations |-> baliTripLocations, categories |-> baliTripCategories]
  /\ added = {}

\* the page is opened, logged out, after the earlier session `prev`
InitAfter(prev, callsLeft) ==
  InitWith(prev,
           IF prev.locs = <<>> THEN Missing ELSE Stringify(prev.locs),
           IF prev.locs = <<>> THEN Missing ELSE Stringify(prev.cats),
           callsLeft)

Init == \E prev \in PrevSessions : InitAfter(prev, MaxCalls)

\* startup on its own: any remote content, any state of the two snapshots
Snapshots(list) == {Missing, Malformed, Stringify(list)}

InitStartup ==
  \E prev, local \in PrevSessions :
    \E snapLocations \in Snapshots(local.locs), snapCategories \in Snapshots(local.cats) :
      InitWith(prev, snapLocations, snapCategories, 0)

\* an earlier session that left three Locations
RoutesSession ==
  [locs |-> <<Loc(1, "a", 0, 1), Loc(2, "b", 1, Undefined), Loc(3, "a", 1, Undefined)>>,
   cats |-> <<[id |-> 1, name |-> "a"]>>]

InitRoutes == InitAfter(RoutesSession, MaxRouteCalls)

\* ---------------------------------------------------------------- calls
CanCall ==
  /\ mounted
  /\ budget > 0
  /\ Cardinality(ops) + Cardinality(batches) < MaxInFlight

\* `added` once o is called: a removal or a clear ends the watch on the ids it
\* names, and so does an update that gives the entry another id
Tracked(o) ==
  IF o.kind = "clearLocations" THEN {}
  ELSE IF o.kind = "removeLocation" \/ (o.kind = "updateLocation" /\ o.upd.id # Keep)
       THEN added \ {o.id}
       ELSE added

\* the prefix of a handler that returns at once while the busy flag is set
Call_Gated(o) ==
  /\ CanCall
  /\ ~isLoading
  /\ ops' = ops \cup {o}
  /\ budget' = budget - 1
  /\ isLoading' = TRUE
  /\ last' = None
  /\ added' = Tracked(o)
  /\ UNCHANGED <<authVars, mounted, locVars, catVars, remoteVars, batches,
                 mounts, finished, saved>>

\* the synchronous prefix of every handler: setIsLoading(true), then the await
Call(o) ==
  /\ CanCall
  /\ ops' = ops \cup {o}
  /\ budget' = budget - 1
  /\ isLoading' = TRUE
  /\ last' = None
  /\ added' = Tracked(o)
  /\ UNCHANGED <<authVars, mounted, locVars, catVars, remoteVars, batches,
                 mounts, finished, saved>>

UpdateInputs ==
  {[NoUpdate EXCEPT !.name = "b", !.lat = 1]}
    \cup {[NoUpdate EXCEPT !.categoryId = c] : c \in Ids(categories)}
    \cup {[NoUpdate EXCEPT !.id = i] : i \in Ids(locations)}

UnknownId == 99

addLocationCall ==
  \E place \in Places, cat \in Ids(categories) \cup {Undefined} :
    Call(Op("addLocation", Undefined, NoUpdate, place.name, place.lat, cat))

removeLocationCall ==
  \E id \in Ids(locations) : Call(Op("removeLocation", id, NoUpdate, "", Keep, Undefined))

updateLocationCall ==
  \E id \in Ids(locations) \cup {UnknownId}, upd \in UpdateInputs :
    Call(Op("updateLocation", id, upd, "", Keep, Undefined))

clearLocationsCall ==
  Call([Op("clearLocations", Undefined, NoUpdate, "", Keep, Undefined)
          EXCEPT !.reqs = [i \in 1..Len(locations) |-> "pending"]])

addCategoryCall ==
  \E name \in Names : Call(Op("addCategory", Undefined, NoUpdate, name, Keep, Undefined))

removeCategoryCall ==
  \E id \in Ids(categories) : Call(Op("removeCategory", id, NoUpdate, "", Keep, Undefined))

updateCategoryCall ==
  \E id \in Ids(categories), name \in Names :
    Call(Op("updateCategory", id, NoUpdate, name, Keep, Undefined))

clearCategoriesCall ==
  Call([Op("clearCategories", Undefined, NoUpdate, "", Keep, Undefined)
          EXCEPT !.reqs = [i \in 1..Len(categories) |-> "pending"]])

\* ---------------------------------------------------------------- gateway
MapMerge(rows, id, upd) ==
  [i \in 1..Len(rows) |-> IF rows[i].id = id THEN Merge(rows[i], upd) ELSE rows[i]]

NewLocation(id, o) ==
  [id |-> id, name |-> o.name, coordinates |-> <<0, o.lat>>, categoryId |-> o.categoryId]

NewCategory(id, o) == [id |-> id, name |-> o.name]

Single == {"loadLocations", "loadCategories", "addLocation", "removeLocation",
           "updateLocation", "addCategory", "removeCategory", "updateCategory"}

\* what a successful call of locationService / categoryService does to the tables
\* and returns (a sequence: the rows, the created row, or nothing)
RemoteOk(o) ==
  CASE o.kind = "loadLocations" ->
         /\ ops' = (ops \ {o}) \cup {[o EXCEPT !.st = "ok", !.res = remoteLocs]}
         /\ UNCHANGED remoteVars
    [] o.kind = "loadCategories" ->
         /\ ops' = (ops \ {o}) \cup {[o EXCEPT !.st = "ok", !.res = remoteCats]}
         /\ UNCHANGED remoteVars
    [] o.kind = "addLocation" ->
         /\ ops' = (ops \ {o}) \cup
                     {[o EXCEPT !.st = "ok", !.res = <<NewLocation(nextLocId, o)>>]}
         /\ remoteLocs' = Append(remoteLocs, NewLocation(nextLocId, o))
         /\ nextLocId' = nextLocId + 1
         /\ UNCHANGED <<remoteCats, nextCatId>>
    [] o.kind = "removeLocation" ->
         /\ ops' = (ops \ {o}) \cup {[o EXCEPT !.st = "ok"]}
         /\ remoteLocs' = SelectSeqBy(remoteLocs, o.id)
         /\ UNCHANGED <<remoteCats, nextLocId, nextCatId>>
    [] o.kind = "updateLocation" ->
         /\ ops' = (ops \ {o}) \cup {[o EXCEPT !.st = "ok"]}
         /\ remoteLocs' = MapMerge(remoteLocs, o.id, o.upd)
         /\ UNCHANGED <<remoteCats, nextLocId, nextCatId>>
    [] o.kind = "addCategory" ->
         /\ ops' = (ops \ {o}) \cup
                     {[o EXCEPT !.st = "ok", !.res = <<NewCategory(nextCatId, o)>>]}
         /\ remoteCats' = Append(remoteCats, NewCategory(nextCatId, o))
         /\ nextCatId' = nextCatId + 1
         /\ UNCHANGED <<remoteLocs, nextLocId>>
    [] o.kind = "removeCategory" ->
         /\ ops' = (ops \ {o}) \cup {[o EXCEPT !.st = "ok"]}
         /\ remoteCats' = SelectSeqBy(remoteCats, o.id)
         /\ UNCHANGED <<remoteLocs, nextLocId, nextCatId>>
    [] o.kind = "updateCategory" ->
         \* the handler passes the bare name where the service expects an object
         \* of columns: the update carries no column
         /\ ops' = (ops \ {o}) \cup {[o EXCEPT !.st = "ok"]}
         /\ UNCHANGED remoteVars

\* the gateway call of o settles: a result, a logged error (empty list, null or
\* false is returned), or an exception
Settle(o, outcome) ==
  /\ o \in ops
  /\ o.kind \in Single
  /\ o.st = "pending"
  /\ IF outcome = "ok" THEN RemoteOk(o)
     ELSE /\ ops' = (ops \ {o}) \cup {[o EXCEPT !.st = outcome]}
          /\ UNCHANGED remoteVars
  /\ last' = None
  /\ UNCHANGED <<authVars, mounted, locVars, catVars, isLoading, batches, budget,
                 mounts, finished, saved, added>>

GatewaySettles == \E o \in ops, outcome \in Outcomes : Settle(o, outcome)

\* one deleteLocation / deleteCategory of a clearLocations / clearCategories
\* settles: the one issued for entry i of the list the handler captured
SettleDelete(o, i, outcome) ==
  /\ o \in ops
  /\ o.kind \in {"clearLocations", "clearCategories"}
  /\ i \in 1..Len(o.reqs)
  /\ o.reqs[i] = "pending"
  /\ ops' = (ops \ {o}) \cup {[o EXCEPT !.reqs[i] = outcome]}
  /\ IF outcome = "ok" /\ o.kind = "clearLocations"
     THEN remoteLocs' = SelectSeqBy(remoteLocs, o.locs[i].id) /\ UNCHANGED remoteCats
     ELSE IF outcome = "ok"
          THEN remoteCats' = SelectSeqBy(remoteCats, o.cats[i].id) /\ UNCHANGED remoteLocs
          ELSE UNCHANGED <<remoteLocs, remoteCats>>
  /\ last' = None
  /\ UNCHANGED <<authVars, mounted, locVars, catVars, isLoading, batches, budget,
                 mounts, finished, saved, added, nextLocId, nextCatId>>

GatewayDeletes ==
  \E o \in ops : \E i \in 1..Len(o.reqs), outcome \in Outcomes : SettleDelete(o, i, outcome)

\* ---------------------------------------------------------------- continuations
\* the frame of a continuation without the finally block
Finish_NoFinally(o) ==
  /\ o \in ops
  /\ ops' = ops \ {o}
  /\ isLoading' = isLoading
  /\ last' = Completed(o)
  /\ IF o.kind = "addLocation" THEN TRUE ELSE added' = added
  /\ UNCHANGED <<authVars, mounted, remoteVars, batches, budget, mounts, finished, saved>>

\* the frame of a continuation: the operation leaves `ops`, finally clears the flag
Finish(o) ==
  /\ o \in ops
  /\ ops' = ops \ {o}
  /\ isLoading' = FALSE
  /\ last' = Completed(o)
  /\ IF o.kind = "addLocation" THEN TRUE ELSE added' = added
  /\ UNCHANGED <<authVars, mounted, remoteVars, batches, budget, mounts, finished, saved>>

Settled_OnlyOk(o) == o.st = "ok"

Settled(o) == o.st # "pending"

\* Promise.all settles when every delete has, or as soon as one has thrown
AllSettled(o) ==
  \/ \A i \in 1..Len(o.reqs) : o.reqs[i] # "pending"
  \/ \E i \in 1..Len(o.reqs) : o.reqs[i] = "throw"

\* after `await locationService.getLocations`: try / catch / finally of loadLocations
loadLocationsDone(o) ==
  /\ o.kind = "loadLocations" /\ Settled(o)
  /\ Finish(o)
  /\ IF o.st # "throw" THEN SetLocations(o.res)
     ELSE IF baliTripLocations.kind # "null" /\ Parses(baliTripLocations)
          THEN SetLocations(Parse(baliTripLocations))
          ELSE UNCHANGED locVars
  /\ UNCHANGED catVars

loadCategoriesDone(o) ==
  /\ o.kind = "loadCategories" /\ Settled(o)
  /\ Finish(o)
  /\ IF o.st # "throw" THEN SetCategories(o.res)
     ELSE IF baliTripCategories.kind # "null" /\ Parses(baliTripCategories)
          THEN SetCategories(Parse(baliTripCategories))
          ELSE UNCHANGED catVars
  /\ UNCHANGED locVars

\* Math.random().toString(36).substring(2, 11): any of the strings it can return
generateId == GenIds

\* addLocation putting the new record in front of the list
addLocationDone_Prepends(o) ==
  /\ o.kind = "addLocation" /\ Settled(o)
  /\ Finish(o)
  /\ IF o.st = "ok"
     THEN SetLocations(<<o.res[1]>> \o o.locs) /\ added' = added \cup {o.res[1].id}
     ELSE \E id \in generateId :
            SetLocations(<<NewLocation(id, o)>> \o o.locs) /\ added' = added \cup {id}
  /\ UNCHANGED catVars

addLocationDone(o) ==
  /\ o.kind = "addLocation" /\ Settled(o)
  /\ Finish(o)
  /\ IF o.st = "ok"
     THEN SetLocations(Append(o.locs, o.res[1])) /\ added' = added \cup {o.res[1].id}
     ELSE \E id \in generateId :
            SetLocations(Append(o.locs, NewLocation(id, o))) /\ added' = added \cup {id}
  /\ UNCHANGED catVars

\* removeLocation dropping the entry only when the remote delete succeeded
removeLocationDone_OnlyOnSuccess(o) ==
  /\ o.kind = "removeLocation" /\ Settled(o)
  /\ Finish(o)
  /\ SetLocations(IF o.st = "ok" THEN SelectSeqBy(o.locs, o.id) ELSE o.locs)
  /\ UNCHANGED catVars

removeLocationDone(o) ==
  /\ o.kind = "removeLocation" /\ Settled(o)
  /\ Finish(o)
  /\ SetLocations(SelectSeqBy(o.locs, o.id))
  /\ UNCHANGED catVars

updateLocationDone(o) ==
  /\ o.kind = "updateLocation" /\ Settled(o)
  /\ Finish(o)
  /\ SetLocations(MapMerge(o.locs, o.id, o.upd))
  /\ UNCHANGED catVars

\* clearLocations keeping the entries whose remote delete did not succeed
clearLocationsDone_KeepFailed(o) ==
  /\ o.kind = "clearLocations" /\ AllSettled(o)
  /\ Finish(o)
  /\ SetLocations(IF \A i \in 1..Len(o.reqs) : o.reqs[i] = "ok" THEN <<>> ELSE o.locs)
  /\ UNCHANGED catVars

clearLocationsDone(o) ==
  /\ o.kind = "clearLocations" /\ AllSettled(o)
  /\ Finish(o)
  /\ SetLocations(<<>>)
  /\ UNCHANGED catVars

addCategoryDone(o) ==
  /\ o.kind = "addCategory" /\ Settled(o)
  /\ Finish(o)
  /\ IF o.st = "ok"
     THEN SetCategories(Append(o.cats, o.res[1]))
     ELSE \E id \in generateId : SetCategories(Append(o.cats, NewCategory(id, o)))
  /\ UNCHANGED locVars

\* removeCategory leaving the Locations as they were
ClearCategoryId_Skip(locs, id) == locs

\* locations.map(loc => loc.categoryId === id ? { ...loc, categoryId: undefined } : loc)
ClearCategoryId(locs, id) ==
  [i \in 1..Len(locs) |->
     IF locs[i].categoryId = id THEN [locs[i] EXCEPT !.categoryId = Undefined]
     ELSE locs[i]]

\* locations.map(loc => ({ ...loc, categoryId: undefined }))
ClearAllCategoryIds(locs) ==
  [i \in 1..Len(locs) |-> [locs[i] EXCEPT !.categoryId = Undefined]]

removeCategoryDone(o) ==
  /\ o.kind = "removeCategory" /\ Settled(o)
  /\ Finish(o)
  /\ SetCategories(SelectSeqBy(o.cats, o.id))
  /\ SetLocations(ClearCategoryId(o.locs, o.id))

updateCategoryDone(o) ==
  /\ o.kind = "updateCategory" /\ Settled(o)
  /\ Finish(o)
  /\ SetCategories([i \in 1..Len(o.cats) |->
                      IF o.cats[i].id = o.id THEN [o.cats[i] EXCEPT !.name = o.name]
                      ELSE o.cats[i]])
  /\ UNCHANGED locVars

clearCategoriesDone(o) ==
  /\ o.kind = "clearCategories" /\ AllSettled(o)
  /\ Finish(o)
  /\ SetCategories(<<>>)
  /\ SetLocations(ClearAllCategoryIds(o.locs))

\* ---------------------------------------------------------------- routes
\* if (locations.length < 2) return, with the check left out
TooFew_Never(locs) == FALSE

\* if (locations.length < 2) return
TooFew(locs) == Len(locs) < 2

\* if (fromId && toId)
IsSingle(fromId, toId) == fromId # Undefined /\ toId # Undefined

\* if (!fromLocation || !toLocation) return, with the check left out
InvalidPair_Never(from, to) == FALSE

\* if (!fromLocation || !toLocation) return
InvalidPair(from, to) == from.id = Undefined \/ to.id = Undefined

\* distanceInfos with the ids ignored: always every pair
distanceInfos_AllPairs(locs, fromId, toId) == calculateAllDirectDistances(locs)

\* distanceInfos: the one pair asked for, or every pair of the Locations
distanceInfos(locs, fromId, toId) ==
  IF IsSingle(fromId, toId)
  THEN <<DirectInfo(Find(locs, fromId), Find(locs, toId))>>
  ELSE calculateAllDirectDistances(locs)

\* fetchDrivingRoutes(fromId?, toId?) up to its first await
fetchDrivingRoutes(fromId, toId) ==
  /\ mounted
  /\ budget > 0
  /\ Cardinality(ops) + Cardinality(batches) < MaxInFlight
  /\ budget' = budget - 1
  /\ LET infos == distanceInfos(locations, fromId, toId)
     IN  IF TooFew(locations)
            \/ (IsSingle(fromId, toId)
                  /\ InvalidPair(Find(locations, fromId), Find(locations, toId)))
         THEN /\ batches' = batches
              /\ last' = [None EXCEPT !.kind = "fetchDrivingRoutes", !.st = "return",
                                      !.id = fromId, !.toId = toId]
         ELSE /\ batches' = batches \cup
                   {[uid |-> budget, infos |-> infos, pairs |-> infos,
                     st |-> [i \in 1..Len(infos) |-> "pending"], order |-> <<>>]}
              /\ last' = [None EXCEPT !.kind = "fetchDrivingRoutes", !.st = "await",
                                      !.id = fromId, !.toId = toId]
  /\ UNCHANGED <<authVars, mounted, locVars, catVars, isLoading, remoteVars, ops,
                 mounts, finished, saved, added>>

fetchDrivingRoutesCall ==
  \E fromId \in Ids(locations) \cup {Undefined, UnknownId},
     toId \in Ids(locations) \cup {Undefined, UnknownId} :
    fetchDrivingRoutes(fromId, toId)

\* Enrich without the check of data.routes.length
Enrich_NoRoutesCheck(info, outcome, route) ==
  IF outcome \in {"ok", "noroutes"}
  THEN [info EXCEPT !.drivingDistance = route.distance \div 1000,
                    !.drivingDuration = route.duration,
                    !.routeGeometry = route.geometry]
  ELSE info

\* one routePromise of a batch settles: the directions request answered with a
\* route, threw, answered with a non-OK status, or answered with no route
Enrich(info, outcome, route) ==
  IF outcome = "ok"
  THEN [info EXCEPT !.drivingDistance = route.distance \div 1000,
                    !.drivingDuration = route.duration,
                    !.routeGeometry = route.geometry]
  ELSE info

\* RouteSettlesWith writing each answer into distances as it arrives
RouteSettlesWith_Incremental(outcomes) ==
  \E b \in batches : \E i \in 1..Len(b.infos), outcome \in outcomes,
                        route \in RouteAnswers :
    /\ b.st[i] = "pending"
    /\ batches' = (batches \ {b}) \cup
                    {[b EXCEPT !.st[i] = outcome, !.order = Append(b.order, i),
                               !.infos[i] = Enrich(b.infos[i], outcome, route)]}
    /\ distances' = [b.infos EXCEPT ![i] = Enrich(b.infos[i], outcome, route)]
    /\ last' = None
    /\ UNCHANGED <<authVars, mounted, locations, baliTripLocations, catVars, isLoading,
                   remoteVars, ops, budget, mounts, finished, saved, added>>

\* the routePromise of pair i of a batch settles; `order` keeps the order in
\* which the requests of the batch were answered
RouteSettlesWith(outcomes) ==
  \E b \in batches : \E i \in 1..Len(b.infos), outcome \in outcomes,
                        route \in RouteAnswers :
    /\ b.st[i] = "pending"
    /\ batches' = (batches \ {b}) \cup
                    {[b EXCEPT !.st[i] = outcome, !.order = Append(b.order, i),
                               !.infos[i] = Enrich(b.infos[i], outcome, route)]}
    /\ last' = None
    /\ UNCHANGED <<authVars, mounted, locVars, catVars, isLoading, remoteVars, ops,
                   budget, mounts, finished, saved, added>>

\* a batch that is not the one started last
Stale(b) == \E c \in batches : c.uid < b.uid

\* the continuation of fetchDrivingRoutes dropping the result of a batch when a
\* newer one is in flight
BatchDone_DropStale(b) ==
  /\ b \in batches
  /\ \A i \in 1..Len(b.infos) : b.st[i] # "pending"
  /\ batches' = batches \ {b}
  /\ distances' = IF Stale(b) THEN distances ELSE b.infos
  /\ last' = [None EXCEPT !.kind = "fetchDrivingRoutes", !.st = "done", !.id = b.uid,
                          !.res = b.st, !.upd = b.order]
  /\ finished' = Append(finished, b.uid)
  /\ UNCHANGED <<authVars, mounted, locations, baliTripLocations, catVars, isLoading,
                 remoteVars, ops, budget, mounts, saved, added>>

RouteSettles == RouteSettlesWith(RouteOutcomes)

\* the directions service answers with a route or is unreachable
RouteAnswersOrThrows == RouteSettlesWith({"ok", "throw"})

\* after `await Promise.all(routePromises)`: setDistances(updatedDistances)
BatchDone(b) ==
  /\ b \in batches
  /\ \A i \in 1..Len(b.infos) : b.st[i] # "pending"
  /\ batches' = batches \ {b}
  /\ distances' = b.infos
  /\ last' = [None EXCEPT !.kind = "fetchDrivingRoutes", !.st = "done", !.id = b.uid,
                          !.res = b.st, !.upd = b.order]
  /\ finished' = Append(finished, b.uid)
  /\ UNCHANGED <<authVars, mounted, locations, baliTripLocations, catVars, isLoading,
                 remoteVars, ops, budget, mounts, saved, added>>

fetchDrivingRoutesDone == \E b \in batches : BatchDone(b)

\* ---------------------------------------------------------------- specification
Next ==
  \/ \E p \in Passcodes : login(p)
  \/ logout
  \/ Reload
  \/ addLocationCall
  \/ removeLocationCall
  \/ updateLocationCall
  \/ clearLocationsCall
  \/ addCategoryCall
  \/ removeCategoryCall
  \/ updateCategoryCall
  \/ clearCategoriesCall
  \/ GatewaySettles
  \/ GatewayDeletes
  \/ \E o \in ops : loadLocationsDone(o)
  \/ \E o \in ops : loadCategoriesDone(o)
  \/ \E o \in ops : addLocationDone(o)
  \/ \E o \in ops : removeLocationDone(o)
  \/ \E o \in ops : updateLocationDone(o)
  \/ \E o \in ops : clearLocationsDone(o)
  \/ \E o \in ops : addCategoryDone(o)
  \/ \E o \in ops : removeCategoryDone(o)
  \/ \E o \in ops : updateCategoryDone(o)
  \/ \E o \in ops : clearCategoriesDone(o)
  \/ fetchDrivingRoutesCall
  \/ RouteSettles
  \/ fetchDrivingRoutesDone

Spec == Init /\ [][Next]_vars

\* every gateway call succeeds
GatewaySucceeds == \E o \in ops : Settle(o, "ok")

GatewayDeleteSucceeds ==
  \E o \in ops : \E i \in 1..Len(o.reqs) : SettleDelete(o, i, "ok")

NextOk ==
  \/ login(PASSCODE)
  \/ addLocationCall
  \/ removeLocationCall
  \/ updateLocationCall
  \/ clearLocationsCall
  \/ addCategoryCall
  \/ removeCategoryCall
  \/ updateCategoryCall
  \/ clearCategoriesCall
  \/ GatewaySucceeds
  \/ GatewayDeleteSucceeds
  \/ \E o \in ops : loadLocationsDone(o)
  \/ \E o \in ops : loadCategoriesDone(o)
  \/ \E o \in ops : addLocationDone(o)
  \/ \E o \in ops : removeLocationDone(o)
  \/ \E o \in ops : updateLocationDone(o)
  \/ \E o \in ops : clearLocationsDone(o)
  \/ \E o \in ops : addCategoryDone(o)
  \/ \E o \in ops : removeCategoryDone(o)
  \/ \E o \in ops : updateCategoryDone(o)
  \/ \E o \in ops : clearCategoriesDone(o)

SpecOk == Init /\ [][NextOk]_vars

\* the route planner: Locations are loaded and removed, routes are fetched
NextRoutes ==
  \/ login(PASSCODE)
  \/ GatewaySucceeds
  \/ \E o \in ops : loadLocationsDone(o)
  \/ \E o \in ops : loadCategoriesDone(o)
  \/ removeLocationCall
  \/ \E o \in ops : removeLocationDone(o)
  \/ fetchDrivingRoutesCall
  \/ RouteAnswersOrThrows
  \/ fetchDrivingRoutesDone

SpecRoutes == InitRoutes /\ [][NextRoutes]_vars

\* startup: the two loads, whatever the gateway answers
NextStartup ==
  \/ login(PASSCODE)
  \/ GatewaySettles
  \/ \E o \in ops : loadLocationsDone(o)
  \/ \E o \in ops : loadCategoriesDone(o)

SpecStartup == InitStartup /\ [][NextStartup]_vars

\* the passcode gate: logins, logouts, reloads and the startup loads they cause
NextAuth ==
  \/ \E p \in Passcodes : login(p)
  \/ logout
  \/ Reload
  \/ GatewaySettles
  \/ \E o \in ops : loadLocationsDone(o)
  \/ \E o \in ops : loadCategoriesDone(o)

SpecAuth == Init /\ [][NextAuth]_vars

\* the code after an `await` of a startup load or of a handler
Continuations ==
  \/ \E o \in ops : loadLocationsDone(o)
  \/ \E o \in ops : loadCategoriesDone(o)
  \/ \E o \in ops : addLocationDone(o)
  \/ \E o \in ops : removeLocationDone(o)
  \/ \E o \in ops : updateLocationDone(o)
  \/ \E o \in ops : clearLocationsDone(o)
  \/ \E o \in ops : addCategoryDone(o)
  \/ \E o \in ops : removeCategoryDone(o)
  \/ \E o \in ops : updateCategoryDone(o)
  \/ \E o \in ops : clearCategoriesDone(o)

\* one session of the manager in which every remote call settles in the end
\* and the event loop runs the code waiting on a promise that has settled
NextLive ==
  \/ login(PASSCODE)
  \/ addLocationCall
  \/ removeLocationCall
  \/ updateLocationCall
  \/ clearLocationsCall
  \/ addCategoryCall
  \/ removeCategoryCall
  \/ updateCategoryCall
  \/ clearCategoriesCall
  \/ GatewaySettles
  \/ GatewayDeletes
  \/ Continuations

SpecLive ==
  /\ Init
  /\ [][NextLive]_vars
  /\ WF_vars(GatewaySettles)
  /\ WF_vars(GatewayDeletes)
  /\ WF_vars(Continuations)

\* calculateAllDirectDistances on its own: `last.locs` holds the argument of a
\* call, `last.res` the list it returns
PairLocations == {Loc(1, "a", 0, Undefined), Loc(2, "b", 1, 1), Loc(3, "a", 2, Undefined)}

LocationLists == UNION {[1..n -> PairLocations] : n \in 0..MaxPairLen}

InitPairs ==
  /\ isLoggedIn = FALSE
  /\ baliAuth = FALSE
  /\ mounted = FALSE
  /\ locations = <<>>
  /\ categories = <<>>
  /\ distances = <<>>
  /\ isLoading = FALSE
  /\ remoteLocs = <<>>
  /\ remoteCats = <<>>
  /\ baliTripLocations = Missing
  /\ baliTripCategories = Missing
  /\ nextLocId = 1
  /\ nextCatId = 1
  /\ ops = {}
  /\ batches = {}
  /\ budget = 0
  /\ mounts = 0
  /\ finished = <<>>
  /\ saved = [locations |-> Missing, categories |-> Missing]
  /\ added = {}
  /\ \E locs \in LocationLists : last = [None EXCEPT !.kind = "argument", !.locs = locs]

calculateAllDirectDistancesCall ==
  /\ last.kind = "argument"
  /\ last' = [last EXCEPT !.kind = "calculateAllDirectDistances",
                          !.res = calculateAllDirectDistances(last.locs)]
  /\ UNCHANGED <<authVars, mounted, locVars, catVars, isLoading, remoteVars, ops,
                 batches, budget, mounts, finished, saved, added>>

NextPairs == calculateAllDirectDistancesCall

SpecPairs == InitPairs /\ [][NextPairs]_vars

\* formatDistance(meters): the text as its unit and its number; with two
\* decimals the number of a "km" text counts hundredths of a kilometre
formatDistance(meters) ==
  IF meters = Undefined THEN [unit |-> "N/A", value |-> 0]
  ELSE IF meters >= 1000
       THEN [unit |-> "km", value |-> (meters + 5) \div 10]
       ELSE [unit |-> "m", value |-> meters]

\* the "By car" line of the route details in the Sidebar
ByCar(distance) ==
  IF distance.drivingDistance # Undefined /\ distance.drivingDistance # 0
  THEN formatDistance(distance.drivingDistance)
  ELSE [unit |-> "Loading driving distance...", value |-> 0]

\* the distances the directions service answers with, in metres: steps of ten
\* kilometres, which the division by 1000 and the two decimals keep exact
RouteDistances == {10000 * k : k \in 0..MaxRouteSteps}

\* the displayed driving distance on its own: `last.id` holds the distance of
\* the route the directions service answered with, `last.res` the DistanceInfo
\* of the pair, `last.ret` the text shown for it
InitUnits ==
  /\ isLoggedIn = FALSE
  /\ baliAuth = FALSE
  /\ mounted = FALSE
  /\ locations = <<>>
  /\ categories = <<>>
  /\ distances = <<>>
  /\ isLoading = FALSE
  /\ remoteLocs = <<>>
  /\ remoteCats = <<>>
  /\ baliTripLocations = Missing
  /\ baliTripCategories = Missing
  /\ nextLocId = 1
  /\ nextCatId = 1
  /\ ops = {}
  /\ batches = {}
  /\ budget = 0
  /\ mounts = 0
  /\ finished = <<>>
  /\ saved = [locations |-> Missing, categories |-> Missing]
  /\ added = {}
  /\ \E d \in RouteDistances :
       last = [None EXCEPT !.kind = "route", !.id = d,
                           !.res = <<DirectInfo(Loc(1, "a", 0, Undefined),
                                                Loc(2, "b", 1, Undefined))>>]

\* the routePromise of the pair is answered with a route of last.id metres
routePromiseAnswered ==
  /\ last.kind = "route"
  /\ last' = [last EXCEPT
                !.kind = "routePromise",
                !.res = <<Enrich(last.res[1], "ok",
                                 [distance |-> last.id, duration |-> 600, geometry |-> 1])>>]
  /\ UNCHANGED <<authVars, mounted, locVars, catVars, isLoading, remoteVars, ops,
                 batches, budget, mounts, finished, saved, added>>

\* the Sidebar renders the route details of the pair
SidebarRouteDetails ==
  /\ last.kind = "routePromise"
  /\ last' = [last EXCEPT !.kind = "ByCar", !.ret = <<ByCar(last.res[1])>>]
  /\ UNCHANGED <<authVars, mounted, locVars, catVars, isLoading, remoteVars, ops,
                 batches, budget, mounts, finished, saved, added>>

NextUnits ==
  \/ routePromiseAnswered
  \/ SidebarRouteDetails

SpecUnits == InitUnits /\ [][NextUnits]_vars

\* ---------------------------------------------------------------- properties
Idle == mounted /\ ops = {} /\ batches = {}

\* C1: the list after an addLocation continuation has exactly one more entry
\* than it had immediately before that continuation ran, whatever the gateway
\* answered and whatever other operations overlap
C1_AddGrowsByOne ==
  last.kind = "addLocation" => Len(locations) = last.lenBefore + 1

\* C2: when the remote load throws at startup, the lists after initialization
\* equal the snapshots the previous session saved
C2_RestartRestore ==
  /\ (last.kind = "loadLocations" /\ last.st = "throw" /\ Parses(saved.locations))
       => locations = Parse(saved.locations)
  /\ (last.kind = "loadCategories" /\ last.st = "throw" /\ Parses(saved.categories))
       => categories = Parse(saved.categories)

\* C3: in every state each Location's categoryId is absent or the id of a
\* Category currently in the Category list
C3_WeakReference ==
  \A i \in 1..Len(locations) :
    locations[i].categoryId = Undefined \/ locations[i].categoryId \in Ids(categories)

\* the same, only in the states where nothing is in flight
WeakReferenceWhenIdle == Idle => C3_WeakReference

\* C4: after the continuation of removeCategory(id), whatever the remote delete
\* did, the Category is gone and no Location holds its id; after the
\* continuation of clearCategories there is no Category and no Location holds
\* a categoryId: both lists change in the one step
C4_CategoryRemovalClears ==
  /\ last.kind = "removeCategory" =>
       /\ last.id \notin Ids(categories)
       /\ \A i \in 1..Len(locations) : locations[i].categoryId # last.id
  /\ last.kind = "clearCategories" =>
       /\ categories = <<>>
       /\ \A i \in 1..Len(locations) : locations[i].categoryId = Undefined

\* removeCategory(id) has completed after its remote delete threw, and a
\* Location of the render that called it held id
C4_Witness ==
  /\ last.kind = "removeCategory"
  /\ last.st = "throw"
  /\ \E i \in 1..Len(last.locs) : last.locs[i].categoryId = last.id
  /\ Len(locations) = Len(last.locs)

\* C5: no two entries of the Location list have the same id
C5_UniqueIds ==
  \A i, j \in 1..Len(locations) : i # j => locations[i].id # locations[j].id

\* C6: when every gateway call succeeds and nothing is in flight, the rows of
\* the remote tables equal the in-memory lists field for field
C6_RemoteEqualsLocal ==
  (mounted /\ ops = {}) =>
    /\ Range(remoteLocs) = Range(locations)
    /\ Range(remoteCats) = Range(categories)

\* a DistanceInfo with the direct distance of its pair and no driving field
DirectOnly(d) ==
  /\ d.directDistance = KmPerDegree * Abs(d.from.coordinates[2] - d.to.coordinates[2])
  /\ d.drivingDistance = Undefined
  /\ d.drivingDuration = Undefined
  /\ d.routeGeometry = Undefined

\* ds holds one direct-only entry for every pair i < j of locs, and nothing else
DirectOfAllPairs(ds, locs) ==
  /\ 2 * Len(ds) = Len(locs) * (Len(locs) - 1)
  /\ \A k \in 1..Len(ds) : DirectOnly(ds[k])
  /\ \A i, j \in 1..Len(locs) :
       i < j => \E k \in 1..Len(ds) : ds[k].from = locs[i] /\ ds[k].to = locs[j]

\* C7: every step that changes the Location list leaves distances equal to the
\* direct distances of all pairs of the new list, empty below two Locations,
\* whether or not a route batch is in flight
C7_ReactiveRecomputation ==
  [][locations' # locations => DirectOfAllPairs(distances', locations')]_vars

\* an addLocation continuation has just produced a list of three Locations
\* while a route batch is still in flight, and distances holds the three
\* direct-only pairs
C7_Witness ==
  /\ last.kind = "addLocation"
  /\ Len(locations) = 3
  /\ batches # {}
  /\ Len(distances) = 3
  /\ \A k \in 1..Len(distances) : DirectOnly(distances[k])

\* C8: while MapProvider is mounted each snapshot is the serialization of the
\* corresponding in-memory list
C8_SnapshotsMirrorLists ==
  mounted =>
    /\ baliTripLocations = Stringify(locations)
    /\ baliTripCategories = Stringify(categories)

\* a fallback addLocation and then an addCategory have completed: the two
\* snapshots hold the two lists, and the second step wrote only its own
C8_Witness ==
  /\ last.kind = "addCategory"
  /\ Len(categories) = 1
  /\ baliTripCategories = Stringify(categories)
  /\ \E i \in 1..Len(locations) : locations[i].id \in GenIds
  /\ baliTripLocations = Stringify(locations)

\* a DistanceInfo with the direct distance of its pair and the three driving fields
Enriched(d) ==
  /\ d.directDistance = KmPerDegree * Abs(d.from.coordinates[2] - d.to.coordinates[2])
  /\ d.drivingDistance # Undefined
  /\ d.drivingDuration # Undefined
  /\ d.routeGeometry # Undefined

BatchJustDone == last.kind = "fetchDrivingRoutes" /\ last.st = "done"

\* C9: when a batch completes, distances has one entry per pair of the batch;
\* the pairs whose request threw, was answered non-OK or was answered without a
\* route are direct-only, the pairs whose request succeeded are enriched
C9_FailureIsolation ==
  BatchJustDone =>
    /\ Len(distances) = Len(last.res)
    /\ \A i \in 1..Len(distances) :
         IF last.res[i] = "ok" THEN Enriched(distances[i]) ELSE DirectOnly(distances[i])

\* a batch over three pairs has completed: one request threw, one was answered
\* without a route, one succeeded
C9_Witness ==
  /\ BatchJustDone
  /\ Len(distances) = 3
  /\ \E i, j, k \in 1..3 :
       /\ last.res[i] = "throw" /\ DirectOnly(distances[i])
       /\ last.res[j] = "noroutes" /\ DirectOnly(distances[j])
       /\ last.res[k] = "ok" /\ Enriched(distances[k])

\* C10: starting a batch leaves the batches in flight as they are, and the
\* continuation of any batch, whichever was started first, replaces distances
\* by the result of that batch
C10_LastSettledBatchWins ==
  [][ /\ (last'.kind = "fetchDrivingRoutes" /\ last'.st = "await") =>
           /\ batches \subseteq batches'
           /\ Cardinality(batches') = Cardinality(batches) + 1
      /\ (last'.kind = "fetchDrivingRoutes" /\ last'.st = "done") =>
           \E b \in batches :
             /\ b.uid = last'.id
             /\ batches' = batches \ {b}
             /\ distances' = b.infos ]_vars

\* two batches overlapped; the one started first, before a Location was
\* removed, completed after the one started later, and distances now holds a
\* pair of the Location that is no longer in the list
C10_Witness ==
  /\ BatchJustDone
  /\ Len(finished) = 2
  /\ finished[1] < finished[2]
  /\ last.id = finished[2]
  /\ Len(locations) = 2
  /\ Len(distances) = 3
  /\ \E k \in 1..Len(distances) : distances[k].to \notin Range(locations)

\* ds holds the pairs of `pairs`, in the same order, each with its direct distance
SamePairs(ds, pairs) ==
  /\ Len(ds) = Len(pairs)
  /\ \A k \in 1..Len(pairs) :
       /\ ds[k].from = pairs[k].from
       /\ ds[k].to = pairs[k].to
       /\ ds[k].directDistance = pairs[k].directDistance

\* C11: a step in which a request of a batch is answered leaves distances as
\* they are; the step that writes the result of a batch is taken only when no
\* request of the batch is pending, and it writes the pairs that the pairing
\* produced when the batch was started, in that order, whatever the order in
\* which the requests were answered
C11_BatchWrittenOnceInPairOrder ==
  [][ /\ (batches' # batches /\ Cardinality(batches') = Cardinality(batches))
           => distances' = distances
      /\ (last'.kind = "fetchDrivingRoutes" /\ last'.st = "done") =>
           \E b \in batches :
             /\ b.uid = last'.id
             /\ \A i \in 1..Len(b.pairs) : b.st[i] # "pending"
             /\ SamePairs(distances', b.pairs) ]_vars

\* a batch over the three pairs of three Locations has completed; its requests
\* were answered in the order 3, 1, 2 and distances holds the pairs in the
\* order (L1,L2), (L1,L3), (L2,L3)
C11_Witness ==
  /\ BatchJustDone
  /\ Len(locations) = 3
  /\ last.upd = <<3, 1, 2>>
  /\ Len(distances) = 3
  /\ distances[1].from = locations[1] /\ distances[1].to = locations[2]
  /\ distances[2].from = locations[1] /\ distances[2].to = locations[3]
  /\ distances[3].from = locations[2] /\ distances[3].to = locations[3]

\* C12: with at least two Locations, fetchDrivingRoutes(fromId, toId) with both
\* ids given and found starts the requests for the one pair (fromId Location,
\* toId Location), and with an id not given for every pair i < j of the
\* Locations; when the batch completes distances is replaced by the list of
\* those pairs, each enriched or left with its direct distance
C12_SinglePairOrAllPairs ==
  [][ /\ (last'.kind = "fetchDrivingRoutes" /\ last'.st = "await") =>
           \E b \in batches' \ batches :
             /\ \A i \in 1..Len(b.st) : b.st[i] = "pending"
             /\ b.infos = b.pairs
             /\ IF last'.id # Undefined /\ last'.toId # Undefined
                THEN /\ Len(b.pairs) = 1
                     /\ b.pairs[1].from \in Range(locations)
                     /\ b.pairs[1].from.id = last'.id
                     /\ b.pairs[1].to \in Range(locations)
                     /\ b.pairs[1].to.id = last'.toId
                     /\ DirectOnly(b.pairs[1])
                ELSE DirectOfAllPairs(b.pairs, locations)
      /\ (last'.kind = "fetchDrivingRoutes" /\ last'.st = "done") =>
           \E b \in batches :
             /\ b.uid = last'.id
             /\ SamePairs(distances', b.pairs)
             /\ \A k \in 1..Len(distances') :
                  Enriched(distances'[k]) \/ DirectOnly(distances'[k]) ]_vars

\* with three Locations, the batch of a call for one pair, given from the later
\* Location to the earlier one, has completed: distances is that one enriched pair
C12_Witness ==
  /\ BatchJustDone
  /\ Len(locations) = 3
  /\ Len(distances) = 1
  /\ Enriched(distances[1])
  /\ \E i, j \in 1..3 :
       i > j /\ distances[1].from = locations[i] /\ distances[1].to = locations[j]

\* what a call that is a no-op leaves as it was
NoOpCall ==
  /\ batches' = batches
  /\ ops' = ops
  /\ distances' = distances
  /\ locations' = locations
  /\ categories' = categories
  /\ isLoading' = isLoading
  /\ baliTripLocations' = baliTripLocations
  /\ baliTripCategories' = baliTripCategories

\* C13: a call of fetchDrivingRoutes while fewer than two Locations exist starts
\* no request and leaves distances, the lists and the busy flag as they were
C13_TooFewIsNoOp ==
  [][ (last'.kind = "fetchDrivingRoutes" /\ last'.st \in {"return", "await"}
         /\ Len(locations) < 2) => NoOpCall ]_vars

\* fetchDrivingRoutes has returned at once with one Location in the list, for a
\* call naming that Location twice
C13_Witness ==
  /\ last.kind = "fetchDrivingRoutes"
  /\ last.st = "return"
  /\ Len(locations) = 1
  /\ last.id = locations[1].id
  /\ last.toId = locations[1].id

\* C14: a call of fetchDrivingRoutes(fromId, toId) in which both ids are given
\* and one of them is the id of no Location starts no request and leaves
\* distances and the rest of the manager's state as they were
C14_InvalidPairIsNoOp ==
  [][ (last'.kind = "fetchDrivingRoutes" /\ last'.st \in {"return", "await"}
         /\ last'.id # Undefined /\ last'.toId # Undefined
         /\ (last'.id \notin Ids(locations) \/ last'.toId \notin Ids(locations)))
        => NoOpCall ]_vars

\* with two Locations and their distances shown, fetchDrivingRoutes has
\* returned at once for a pair whose toId is the id of no Location
C14_Witness ==
  /\ last.kind = "fetchDrivingRoutes"
  /\ last.st = "return"
  /\ Len(locations) >= 2
  /\ last.id \in Ids(locations)
  /\ last.toId = UnknownId
  /\ Len(distances) >= 1

\* the place of the pair (i, j), i < j, among the pairs of n Locations listed by
\* ascending i and then ascending j
PairIndex(n, i, j) == (i - 1) * n - ((i - 1) * i) \div 2 + (j - i)

\* C15: for a list of N Locations calculateAllDirectDistances returns
\* N*(N-1)/2 entries (none when N < 2), and the pair (locations[i],
\* locations[j]), i < j, stands at the place its ascending (i, j) order gives
\* it, with its direct distance and no driving field
C15_PairsInOrder ==
  last.kind = "calculateAllDirectDistances" =>
    LET n == Len(last.locs)
    IN  /\ 2 * Len(last.res) = n * (n - 1)
        /\ \A i, j \in 1..n :
             i < j => /\ last.res[PairIndex(n, i, j)].from = last.locs[i]
                      /\ last.res[PairIndex(n, i, j)].to = last.locs[j]
                      /\ DirectOnly(last.res[PairIndex(n, i, j)])

\* calculateAllDirectDistances has returned six pairs for a list of four
\* Locations in which two entries are the same Location
C15_Witness ==
  /\ last.kind = "calculateAllDirectDistances"
  /\ Len(last.locs) = 4
  /\ last.locs[1] = last.locs[3]
  /\ last.locs[2] # last.locs[4]
  /\ Len(last.res) = 6
  /\ last.res[4].from = last.locs[2]
  /\ last.res[4].to = last.locs[3]

\* C16: after the continuation of removeLocation(id), whether the remote delete
\* succeeded, was refused or threw, the list has no entry with that id and the
\* busy flag is cleared; the continuation is the same for the three outcomes,
\* none of them leaves the handler as an exception
C16_RemoveLocationAlwaysRemoves ==
  last.kind = "removeLocation" =>
    /\ last.st \in Outcomes
    /\ last.id \notin Ids(locations)
    /\ ~isLoading

\* removeLocation(id) has completed after its remote delete threw; id was in the
\* list of the render that called it and the row is still in the remote table
C16_Witness ==
  /\ last.kind = "removeLocation"
  /\ last.st = "throw"
  /\ last.id \in Ids(last.locs)
  /\ last.id \in Ids(remoteLocs)
  /\ Len(locations) = Len(last.locs) - 1

\* C17: the continuation of updateLocation(id, partialFields), whatever the
\* remote update did, leaves the length and the order of the list as they
\* were, replaces each entry with that id by the merge of its fields with
\* partialFields and leaves every other entry as it was
C17_UpdateMergesInPlace ==
  [][ last'.kind = "updateLocation" =>
        /\ Len(locations') = Len(locations)
        /\ \A i \in 1..Len(locations) :
             locations'[i] = IF locations[i].id = last'.id
                             THEN Merge(locations[i], last'.upd[1])
                             ELSE locations[i] ]_vars

\* the same for an updateLocation that no other operation overlapped: the list
\* is still the one of the render that called it
UpdateMergesInPlaceWhenAlone ==
  [][ (last'.kind = "updateLocation" /\ last'.locs = locations) =>
        /\ Len(locations') = Len(locations)
        /\ \A i \in 1..Len(locations) :
             locations'[i] = IF locations[i].id = last'.id
                             THEN Merge(locations[i], last'.upd[1])
                             ELSE locations[i] ]_vars

\* an operation of kind k is called in this step: it joins `ops` under a new uid
Called(o) == o \in ops' /\ o.uid \notin {q.uid : q \in ops}

\* C18: the call of clearLocations issues one remote delete for every entry of
\* the Location list, all pending together; whichever of them fail, after the
\* continuation the list is empty and so is the Location snapshot
C18_ClearLocationsEmpties ==
  [][ /\ \A o \in ops' :
           (Called(o) /\ o.kind = "clearLocations") =>
             /\ Len(o.reqs) = Len(locations)
             /\ o.locs = locations
             /\ \A i \in 1..Len(o.reqs) : o.reqs[i] = "pending"
      /\ last'.kind = "clearLocations" =>
           /\ locations' = <<>>
           /\ baliTripLocations' = Stringify(<<>>) ]_vars

\* clearLocations has completed for a list of two Locations: one remote delete
\* succeeded, the other threw, and a row is left in the remote table
C18_Witness ==
  /\ last.kind = "clearLocations"
  /\ Len(last.locs) = 2
  /\ \E i, j \in 1..2 : last.res[i] = "ok" /\ last.res[j] = "throw"
  /\ remoteLocs # <<>>
  /\ locations = <<>>
  /\ baliTripLocations = Stringify(<<>>)

WellFormed(list, fields) == \A i \in 1..Len(list) : DOMAIN list[i] = fields

\* the source gave no data: the gateway logged an error and returned no row,
\* or it threw and the snapshot saved before the mount is missing or malformed
NoData(st, snapshot) ==
  \/ st = "soft"
  \/ st = "throw" /\ (snapshot = Missing \/ ~Parses(snapshot))

\* C19: during and after startup, for every outcome of the two remote loads
\* and every state of the two snapshots, the lists are lists of well-formed
\* entries; a load that got no data from either source leaves its list empty;
\* and once both loads have completed the busy flag is cleared
C19_StartupNeverFails ==
  mounted =>
    /\ WellFormed(locations, {"id", "name", "coordinates", "categoryId"})
    /\ WellFormed(categories, {"id", "name"})
    /\ (last.kind = "loadLocations" /\ NoData(last.st, saved.locations))
         => locations = <<>>
    /\ (last.kind = "loadCategories" /\ NoData(last.st, saved.categories))
         => categories = <<>>
    /\ ops = {} => ~isLoading

\* startup has completed although the remote tables hold rows: both loads
\* threw, the later one loadCategories, and both snapshots were malformed
C19_Witness ==
  /\ mounted
  /\ ops = {}
  /\ last.kind = "loadCategories"
  /\ last.st = "throw"
  /\ saved.locations = Malformed
  /\ saved.categories = Malformed
  /\ remoteLocs # <<>>
  /\ locations = <<>>
  /\ categories = <<>>
  /\ ~isLoading

\* C20: the busy flag gates nothing: whenever the manager can be called at all,
\* with isLoading true or false and other mutations in flight or not, each
\* mutation can be called at once and its call joins the ones in flight; and
\* the continuation of every mutation whose remote call has settled can run
\* while the others are still waiting
C20_BusyFlagIsNoGate ==
  /\ CanCall =>
       /\ ENABLED addLocationCall
       /\ ENABLED clearLocationsCall
       /\ ENABLED addCategoryCall
       /\ ENABLED clearCategoriesCall
       /\ locations # <<>> => ENABLED removeLocationCall
       /\ ENABLED updateLocationCall
       /\ categories # <<>> => (ENABLED removeCategoryCall /\ ENABLED updateCategoryCall)
  /\ \A o \in ops :
       /\ (o.kind = "addLocation" /\ Settled(o)) => ENABLED addLocationDone(o)
       /\ (o.kind = "removeLocation" /\ Settled(o)) => ENABLED removeLocationDone(o)
       /\ (o.kind = "updateLocation" /\ Settled(o)) => ENABLED updateLocationDone(o)
       /\ (o.kind = "addCategory" /\ Settled(o)) => ENABLED addCategoryDone(o)
       /\ (o.kind = "removeCategory" /\ Settled(o)) => ENABLED removeCategoryDone(o)
       /\ (o.kind = "updateCategory" /\ Settled(o)) => ENABLED updateCategoryDone(o)
       /\ (o.kind = "clearLocations" /\ AllSettled(o)) => ENABLED clearLocationsDone(o)
       /\ (o.kind = "clearCategories" /\ AllSettled(o)) => ENABLED clearCategoriesDone(o)

\* with the busy flag set, an addLocation and a removeLocation called after it
\* are in flight together, and the remote call of the later one has settled
\* while that of the earlier one is still pending
C20_Witness ==
  /\ isLoading
  /\ \E o, q \in ops :
       /\ o.kind = "addLocation" /\ o.st = "pending"
       /\ q.kind = "removeLocation" /\ q.st = "ok"
       /\ q.uid < o.uid

\* C21: login(p) returns true, sets isLoggedIn and stores the auth flag when p
\* is the passcode; for any other p it returns false and leaves isLoggedIn and
\* the stored flag as they were
C21_LoginIffPasscode ==
  [][ last'.kind = "login" =>
        IF last'.id = PASSCODE
        THEN last'.st = "true" /\ isLoggedIn' /\ baliAuth'
        ELSE /\ last'.st = "false"
             /\ isLoggedIn' = isLoggedIn
             /\ baliAuth' = baliAuth
             /\ mounted' = mounted ]_vars

\* a login with another passcode has returned false after a logout: nobody is
\* logged in and no auth flag is stored, although a session was open before
C21_Witness ==
  /\ last.kind = "login"
  /\ last.id # PASSCODE
  /\ last.st = "false"
  /\ ~isLoggedIn
  /\ ~baliAuth
  /\ ~mounted
  /\ mounts = 1

SameRelativeOrder(old, new) ==
  \A i, j \in 1..Len(old) :
    (i < j /\ old[i] \in Range(new) /\ old[j] \in Range(new) /\ old[i] # old[j]) =>
      \E k, l \in 1..Len(new) : k < l /\ new[k] = old[i] /\ new[l] = old[j]

\* C22: the continuation of addLocation leaves as the last entry of the list
\* the record the gateway returned, when it returned one, and otherwise a
\* record with a generated id and the name, coordinates and categoryId of the
\* call (no categoryId when none was given); the entries that were in the
\* list and still are keep their relative order
C22_AddAppendsRecord ==
  [][ last'.kind = "addLocation" =>
        /\ locations' # <<>>
        /\ LET new == locations'[Len(locations')]
               arg == last'.arg[1]
           IN  /\ new.name = arg.name
               /\ new.coordinates = <<0, arg.lat>>
               /\ new.categoryId = arg.categoryId
               /\ IF last'.st = "ok"
                  THEN new = last'.ret[1] /\ new.id \notin GenIds
                  ELSE new.id \in GenIds
        /\ SameRelativeOrder(locations, locations') ]_vars

\* addLocation, called with a categoryId, has completed after the create call
\* returned no record: the third entry of the list carries a generated id and
\* that categoryId, behind the two entries that were there
C22_Witness ==
  /\ last.kind = "addLocation"
  /\ last.st = "soft"
  /\ Len(locations) = 3
  /\ last.lenBefore = 2
  /\ locations[3].id \in GenIds
  /\ locations[3].categoryId # Undefined
  /\ locations[3].categoryId = last.arg[1].categoryId

InFlight(kind) == \E o \in ops : o.kind = kind

\* C23: while a startup load is in flight, its outcome not yet acted upon, the
\* snapshot the previous session wrote is still in the fallback store
C23_SnapshotKeptUntilLoaded ==
  /\ (InFlight("loadLocations") /\ Parses(saved.locations))
       => baliTripLocations = saved.locations
  /\ (InFlight("loadCategories") /\ Parses(saved.categories))
       => baliTripCategories = saved.categories

\* C24: a Location that a completed addLocation appended stays in the list
\* until a removeLocation of its id or a clearLocations is called, whatever
\* other operations, called before or after, complete in between
C24_NoLostUpdate ==
  mounted => added \subseteq Ids(locations)

\* C25: when no operation and no route batch is in flight, every entry of
\* distances joins two entries of the current Location list, and distances is
\* empty when the list has fewer than two entries
C25_DistancesOfCurrentLocations ==
  Idle =>
    /\ \A k \in 1..Len(distances) :
         distances[k].from \in Range(locations) /\ distances[k].to \in Range(locations)
    /\ Len(locations) < 2 => distances = <<>>

\* C26: every entry of distances joins two Locations with different ids
C26_DistinctEndpoints ==
  \A k \in 1..Len(distances) : distances[k].from.id # distances[k].to.id

\* C27: isLoading is true in every state in which a startup load or a mutation
\* is in flight
C27_BusyWhileInFlight ==
  (mounted /\ ops # {}) => isLoading

\* some operation with call number u is in flight
Running(u) == \E o \in ops : o.uid = u

\* C28: when every remote call settles, every operation that was invoked
\* completes, whichever way its calls settled, and whenever no operation is in
\* flight the busy flag is false
C28_OperationsComplete ==
  /\ \A u \in 0..MaxCalls : Running(u) ~> ~Running(u)
  /\ []((mounted /\ ops = {}) => ~isLoading)

\* clearLocations has completed as soon as one of its deletes threw, another
\* one still pending: nothing is in flight and the busy flag is false
C28_Witness ==
  /\ mounted
  /\ ops = {}
  /\ ~isLoading
  /\ last.kind = "clearLocations"
  /\ \E i, j \in 1..Len(last.res) : last.res[i] = "throw" /\ last.res[j] = "pending"

\* the metres a formatted distance denotes
Metres(text) ==
  IF text.unit = "km" THEN 10 * text.value
  ELSE IF text.unit = "m" THEN text.value
  ELSE Undefined

\* C30: the text formatDistance gives for the stored drivingDistance of a
\* route of d metres denotes d metres
C30_UnitsAgree ==
  (last.kind = "ByCar" /\ last.ret[1].unit \in {"m", "km"}) =>
    Metres(last.ret[1]) = last.id

====
